---- MODULE Spec2Model ----
(***************************************************************************)
(* Model of the Kafka metadata source                                      *)
(* (metadata-ingestion/src/gometa/ingestion/source/kafka.py):              *)
(* KafkaSourceConfig, KafkaSourceReport and KafkaSource with its           *)
(* generator get_workunits, _extract_record and close.                     *)
(*                                                                         *)
(* Strings that the code inspects character by character (topic names,     *)
(* regular expressions, work unit ids) are sequences of one-character      *)
(* strings.  The wall-clock value of the AuditStamp is not represented.    *)
(***************************************************************************)
EXTENDS Integers, Sequences, FiniteSets, Bags, TLC

(* ---------------------------------------------------------------- bounds *)
MaxTopics == 3      \* longest topic enumeration the platform returns
MaxGens == 2        \* get_workunits() calls made on the one Source
MaxCloses == 2      \* close() calls made on the one Source
MaxRuns == 2        \* Pipelines created and run one after the other

(* ------------------------------------------------------------ the inputs *)
Orders == <<"o", "r", "d", "e", "r", "s">>
Internal == <<"_", "i", "n", "t", "e", "r", "n", "a", "l">>
Customers == <<"c", "u", "s", "t", "o", "m", "e", "r", "s">>
Schemas == <<"_", "s", "c", "h", "e", "m", "a", "s">>

TopicNames == {Orders, Internal, Customers, Schemas}

\* list_topics().topics is a dict keyed by topic name: an enumeration never
\* holds the same name twice.
NoDuplicates(s) == \A i, j \in DOMAIN s : i # j => s[i] # s[j]

Enumerations ==
    {s \in UNION {[1..n -> TopicNames] : n \in 0..MaxTopics} : NoDuplicates(s)}

\* What schema_registry_client.get_latest_version(topic + "-value") can do:
\* raise, or return a registered schema.  An AVRO schema string is either one
\* that avro_schema_to_mce_fields converts or one on which it raises.
FetchRaises == [raises |-> TRUE, schema_type |-> "", schema_str |-> ""]
AvroGood == [raises |-> FALSE, schema_type |-> "AVRO", schema_str |-> "record"]
AvroBad == [raises |-> FALSE, schema_type |-> "AVRO", schema_str |-> "garbage"]
JsonSchema == [raises |-> FALSE, schema_type |-> "JSON", schema_str |-> "object"]

Responses == {FetchRaises, AvroGood, AvroBad, JsonSchema}

(* ------------------------------------------------------- AllowDenyPattern *)
RECURSIVE RegexMatch(_, _)
\* Full-string match of the token sequence p against the string s, for the
\* regular expressions built from literals, ".", a postfix "*" and a leading "^".
RegexMatch(p, s) ==
    IF p = <<>> THEN s = <<>>
    ELSE IF Head(p) = "^" THEN RegexMatch(Tail(p), s)
    ELSE IF Len(p) >= 2 /\ p[2] = "*"
         THEN \/ RegexMatch(Tail(Tail(p)), s)
              \/ /\ s # <<>>
                 /\ (p[1] = "." \/ p[1] = s[1])
                 /\ RegexMatch(p, Tail(s))
    ELSE /\ s # <<>>
         /\ (p[1] = "." \/ p[1] = s[1])
         /\ RegexMatch(Tail(p), Tail(s))

\* The default without its deny pattern.
DenyDropped == [allow |-> << <<".", "*">> >>, deny |-> << >>]

\* KafkaSourceConfig.topic_patterns default: allow=[".*"], deny=["^_.*"]
topic_patterns == [allow |-> << <<".", "*">> >>, deny |-> << <<"^", "_", ".", "*">> >>]

\* AllowDenyPattern.allowed: a deny match rejects, else an allow match accepts.
allowed(t) ==
    IF \E i \in DOMAIN topic_patterns.deny : RegexMatch(topic_patterns.deny[i], t)
    THEN FALSE
    ELSE \E i \in DOMAIN topic_patterns.allow : RegexMatch(topic_patterns.allow[i], t)

\* The decision of allowed for each topic name of the platform.
Allowed == [t \in TopicNames |-> allowed(t)]

\* self.source_config.topic_patterns.allowed(t), as get_workunits calls it.
topic_allowed(t) == Allowed[t]

(* ------------------------------------------------------ KafkaSourceReport *)
\* A report whose counter starts at one.
ReportCountsFromOne ==
    [topics_scanned |-> 1, warnings |-> << >>, failures |-> << >>,
     filtered |-> << >>, workunits_produced |-> 0]

NewReport ==
    [topics_scanned |-> 0, warnings |-> << >>, failures |-> << >>,
     filtered |-> << >>, workunits_produced |-> 0]

report_topic_scanned(rep, topic) ==
    [rep EXCEPT !.topics_scanned = @ + 1]

\* A dict of lists: the key is created on first use, the reason is appended.
AddReason(d, topic, reason) ==
    IF topic \in DOMAIN d
    THEN [d EXCEPT ![topic] = Append(@, reason)]
    ELSE [k \in DOMAIN d \cup {topic} |-> IF k = topic THEN <<reason>> ELSE d[k]]

report_warning(rep, topic, reason) ==
    [rep EXCEPT !.warnings = AddReason(@, topic, reason)]

report_failure(rep, topic, reason) ==
    [rep EXCEPT !.failures = AddReason(@, topic, reason)]

\* report_dropped that also files a warning for the topic.
DroppedWithWarning(rep, topic) ==
    [rep EXCEPT !.filtered = Append(@, topic),
                !.warnings = AddReason(@, topic, "dropped")]

report_dropped(rep, topic) ==
    [rep EXCEPT !.filtered = Append(@, topic)]

\* SourceReport.report_workunit counts the work unit.
report_workunit(rep, wu) ==
    [rep EXCEPT !.workunits_produced = @ + 1]

(* ------------------------------------------------------------------ state *)
VARIABLES
    platform_topics,  \* what consumer.list_topics().topics enumerates
    registry,         \* the schema registry's response per subject fetched so far
    report,           \* KafkaSource.report
    calls,            \* number of calls made on the platform clients, per method
    gens,             \* the bag of generator objects get_workunits() has returned
    close_raised,     \* whether a call of close() has raised
    pipeline,         \* the Pipeline that drives the Source, if one was created
    sink,             \* the Sink of that Pipeline
    previous          \* what the Sources of earlier runs produced and reported

vars == <<platform_topics, registry, report, calls, gens, close_raised,
          pipeline, sink, previous>>

\* The Source's own state and the Pipeline's.
pipeline_vars == <<pipeline, sink, previous>>

(* ------------------------------------------------------- _extract_record *)
Kafka == <<"k", "a", "f", "k", "a", "-">>

Status == [aspect |-> "Status", removed |-> FALSE]

\* schema_util.avro_schema_to_mce_fields: the fields of a schema string it can
\* parse; it raises on one it cannot.
AvroConvertible(schema_str) == schema_str = "record"
avro_schema_to_mce_fields(schema_str) == <<"field">>

SchemaMetadata(topic, schema, fields) ==
    [aspect |-> "SchemaMetadata", schemaName |-> topic, version |-> 0,
     platform |-> "urn:li:dataPlatform:kafka",
     platformSchema |-> schema.schema_str, fields |-> fields,
     actor |-> "urn:li:corpuser:etl"]

\* The record without the Status aspect appended at line 107.
StatusNotAppended(topic, aspects) ==
    [urn |-> <<"urn:li:dataset:(urn:li:dataPlatform:kafka,", topic, ",PROD)">>,
     aspects |-> Tail(aspects)]

MetadataChangeEvent(topic, aspects) ==
    [urn |-> <<"urn:li:dataset:(urn:li:dataPlatform:kafka,", topic, ",PROD)">>,
     aspects |-> aspects]

\* What one call of _extract_record gives: raised tells whether an exception
\* leaves the method, report is the report afterwards, mce the record returned
\* when nothing was raised.

\* The except branch reporting a failure in place of the warning.
FetchErrorAsFailure(topic, rep) ==
    [raised |-> FALSE,
     report |-> report_failure(rep, topic, "failed to get schema"),
     mce |-> MetadataChangeEvent(topic, <<Status>>)]

\* The except branch without has_schema = False: the elif of the parse warns too.
FetchFailedStillParsed(topic, rep) ==
    [raised |-> FALSE,
     report |-> report_warning(report_warning(rep, topic, "failed to get schema"),
                               topic, "unable to parse kafka schema type"),
     mce |-> MetadataChangeEvent(topic, <<Status>>)]

\* The except branch of the fetch: a warning, has_schema = False, so neither
\* the parse nor the SchemaMetadata block runs.
fetch_failed(topic, rep) ==
    [raised |-> FALSE,
     report |-> report_warning(rep, topic, "failed to get schema"),
     mce |-> MetadataChangeEvent(topic, <<Status>>)]

\* The elif branch as it would be if it also cleared has_schema.
UnsupportedWithoutSchema(topic, schema, rep) ==
    [raised |-> FALSE,
     report |-> report_warning(rep, topic, "unable to parse kafka schema type"),
     mce |-> MetadataChangeEvent(topic, <<Status>>)]

\* The elif branch of the parse: a warning, fields stays [], and has_schema is
\* still True, so the SchemaMetadata block runs.
unsupported_type(topic, schema, rep) ==
    [raised |-> FALSE,
     report |-> report_warning(rep, topic, "unable to parse kafka schema type"),
     mce |-> MetadataChangeEvent(topic,
                 <<Status, SchemaMetadata(topic, schema, << >>)>>)]

\* The AVRO branch: the conversion runs outside any try block.
avro_type(topic, schema, rep) ==
    IF AvroConvertible(schema.schema_str)
    THEN [raised |-> FALSE,
          report |-> rep,
          mce |-> MetadataChangeEvent(topic,
                      <<Status, SchemaMetadata(topic, schema,
                                   avro_schema_to_mce_fields(schema.schema_str))>>)]
    ELSE [raised |-> TRUE, report |-> rep,
          mce |-> MetadataChangeEvent(topic, <<Status>>)]

\* _extract_record(topic) when the registry answers resp and the report is rep.
_extract_record(topic, resp, rep) ==
    IF resp.raises THEN fetch_failed(topic, rep)
    ELSE IF resp.schema_type = "AVRO" THEN avro_type(topic, resp, rep)
    ELSE unsupported_type(topic, resp, rep)

\* The id without the topic name.
KafkaPrefixOnly(t) == Kafka

WorkUnitId(t) == Kafka \o t

MetadataWorkUnit(t, mce) == [id |-> WorkUnitId(t), mce |-> mce]

(* ---------------------------------------------------------- get_workunits *)
\* A generator object: pc is "created" before the first pull, "suspended" at
\* the yield, "exhausted" after the loop ended, "raised" after an exception
\* left the body.  topics is its local enumeration, i the number of its topics
\* the loop has taken, emitted the work units it has yielded.  after_close
\* records whether close() had been called when get_workunits() was called.
NewGenerator(closed) ==
    [pc |-> "created", topics |-> << >>, i |-> 0, emitted |-> << >>,
     error |-> "none", after_close |-> closed]

RECURSIVE SkipDroppedUncounted(_, _, _)
\* The loop with report_topic_scanned moved into the branch of allowed topics.
SkipDroppedUncounted(rep, topics, i) ==
    IF i < Len(topics) /\ ~topic_allowed(topics[i + 1])
    THEN SkipDroppedUncounted(report_dropped(rep, topics[i + 1]), topics, i + 1)
    ELSE [report |-> rep, i |-> i]

RECURSIVE SkipDropped(_, _, _)
\* The loop iterations from topic i+1 on, up to but excluding the first topic
\* the pattern allows: each is counted as scanned and reported as dropped.
SkipDropped(rep, topics, i) ==
    IF i < Len(topics) /\ ~topic_allowed(topics[i + 1])
    THEN SkipDropped(report_dropped(report_topic_scanned(rep, topics[i + 1]),
                                    topics[i + 1]),
                     topics, i + 1)
    ELSE [report |-> rep, i |-> i]

\* The responses the registry may give for a topic: the one it gave before,
\* or any response when the subject has not been fetched yet.
ResponsesFor(t) == IF t \in DOMAIN registry THEN {registry[t]} ELSE Responses

Record(reg, t, resp) ==
    [k \in DOMAIN reg \cup {t} |-> IF k = t THEN resp ELSE reg[k]]

\* The generator object g becomes h.
Resume(g, h) == (gens (-) SetToBag({g})) (+) SetToBag({h})

\* The body of the generator g run from the top of the loop with the local
\* enumeration topics, i topics taken and the client calls cl, until the next
\* yield, the end of the loop or an exception.
RunLoop(g, topics, i0, cl) ==
    LET s == SkipDropped(report, topics, i0) IN
    IF s.i = Len(topics)
    THEN /\ gens' = Resume(g,
                        [g EXCEPT !.pc = "exhausted", !.topics = topics, !.i = s.i])
         /\ report' = s.report
         /\ calls' = cl
         /\ UNCHANGED registry
    ELSE LET t == topics[s.i + 1] IN
         \E resp \in ResponsesFor(t) :
            LET r == _extract_record(t, resp, report_topic_scanned(s.report, t))
                wu == MetadataWorkUnit(t, r.mce)
            IN /\ registry' = Record(registry, t, resp)
               /\ calls' = [cl EXCEPT !.get_latest_version = @ + 1]
               /\ IF r.raised
                  THEN /\ gens' = Resume(g,
                              [g EXCEPT !.pc = "raised", !.topics = topics,
                                        !.i = s.i + 1, !.error = "SchemaParseError"])
                       /\ report' = r.report
                  ELSE /\ gens' = Resume(g,
                              [g EXCEPT !.pc = "suspended", !.topics = topics,
                                        !.i = s.i + 1,
                                        !.emitted = Append(@, wu)])
                       /\ report' = report_workunit(r.report, wu)

\* What a call on the consumer does once consumer.close() has been called: the
\* client library decides whether it raises or answers.
ClosedHandleOutcomes == {"raises", "returns"}

\* source.get_workunits(): a generator function, the call runs none of the body.
get_workunits ==
    /\ gens' = gens (+) SetToBag({NewGenerator(calls.close > 0)})
    /\ UNCHANGED <<platform_topics, registry, report, calls, close_raised>>

GetWorkunits ==
    /\ BagCardinality(gens) < MaxGens
    /\ get_workunits
    /\ UNCHANGED pipeline_vars

\* next(g) on a generator not yet started: list_topics(), then the loop.
StartGenerator(g) ==
    /\ g.pc = "created"
    /\ LET cl == [calls EXCEPT !.list_topics = @ + 1] IN
       \E o \in (IF calls.close > 0 THEN ClosedHandleOutcomes ELSE {"returns"}) :
          IF o = "raises"
          THEN /\ gens' = Resume(g,
                              [g EXCEPT !.pc = "raised", !.error = "RuntimeError"])
               /\ calls' = cl
               /\ UNCHANGED <<registry, report>>
          ELSE RunLoop(g, platform_topics, 0, cl)
    /\ UNCHANGED <<platform_topics, close_raised>>

FirstPull(g) == StartGenerator(g) /\ UNCHANGED pipeline_vars

\* next(g) on a generator suspended at the yield: the loop goes on.
ResumeGenerator(g) ==
    /\ g.pc = "suspended"
    /\ RunLoop(g, g.topics, g.i, calls)
    /\ UNCHANGED <<platform_topics, close_raised>>

NextPull(g) == ResumeGenerator(g) /\ UNCHANGED pipeline_vars

(* ------------------------------------------------------------------ close *)
\* self.consumer is never reassigned and a Consumer object is truthy, so the
\* test of `if self.consumer` passes on every call.
source_close ==
    /\ calls' = [calls EXCEPT !.close = @ + 1]
    /\ \E o \in (IF calls.close > 0 THEN ClosedHandleOutcomes ELSE {"returns"}) :
          close_raised' = (close_raised \/ o = "raises")
    /\ UNCHANGED <<platform_topics, registry, report, gens>>

close ==
    /\ calls.close < MaxCloses
    /\ source_close
    /\ UNCHANGED pipeline_vars

(* --------------------------------------------------------------- Pipeline *)
\* No Pipeline object yet.  pc is where run() stands, pending the work unit
\* pulled from the Source and not yet handed to the Sink, run_error what run()
\* raised, raise_result what raise_from_status() did.
NoPipeline ==
    [pc |-> "none", pending |-> << >>, run_error |-> "none",
     raise_result |-> "not called"]

\* The Sink: the work units written to it, and a report of the shape of the
\* Source's.
NewSink == [received |-> << >>, warnings |-> << >>, failures |-> << >>,
            closed |-> FALSE]

(* ------------------------------------------------------------- get_report *)
get_report == report

(* ---------------------------------------------------------- specification *)
\* KafkaSource.__init__: a fresh report, open client handles, no generator.
Init ==
    /\ platform_topics \in Enumerations
    /\ registry = << >>
    /\ report = NewReport
    /\ calls = [list_topics |-> 0, get_latest_version |-> 0, close |-> 0]
    /\ gens = EmptyBag
    /\ close_raised = FALSE
    /\ pipeline = NoPipeline
    /\ sink = NewSink
    /\ previous = << >>

Next ==
    \/ GetWorkunits
    \/ \E g \in BagToSet(gens) : FirstPull(g)
    \/ \E g \in BagToSet(gens) : NextPull(g)
    \/ close

Spec == Init /\ [][Next]_vars

(* ----------------------------------------------------------- Pipeline run *)
\* The report shared by two Source objects.
SharedReport(existing) == existing

\* KafkaSource.__init__: self.report = KafkaSourceReport(); the collections
\* come from default_factory, so nothing of an existing report is kept.
KafkaSourceReport(existing) == NewReport

\* What the Source of the current run has produced and reported: how its
\* generators ended, the ids yielded, and the shape of the report.
Shape(d) == [t \in DOMAIN d |-> Len(d[t])]

RunOutcome ==
    [ended |-> {g.pc : g \in BagToSet(gens)},
     ids |-> UNION {{g.emitted[n].id : n \in DOMAIN g.emitted} : g \in BagToSet(gens)},
     topics_scanned |-> report.topics_scanned,
     filtered |-> report.filtered,
     warnings |-> Shape(report.warnings),
     failures |-> Shape(report.failures)]

\* What writing one work unit does to the Sink's report.
SinkOutcomes == {"ok", "warning", "failure"}

\* A write that puts the work unit in front of what the Sink received.
WrittenFirst(snk, wu, outcome) ==
    [snk EXCEPT !.received = <<wu>> \o @,
                !.warnings = IF outcome = "warning"
                             THEN AddReason(@, wu.id, "sink warning") ELSE @,
                !.failures = IF outcome = "failure"
                             THEN AddReason(@, wu.id, "sink failure") ELSE @]

\* sink.write(wu): the unit is appended to what the Sink received; the Sink
\* may file a warning or a failure for it.
write(snk, wu, outcome) ==
    [snk EXCEPT !.received = Append(@, wu),
                !.warnings = IF outcome = "warning"
                             THEN AddReason(@, wu.id, "sink warning") ELSE @,
                !.failures = IF outcome = "failure"
                             THEN AddReason(@, wu.id, "sink failure") ELSE @]

HasEntry(d) == \E t \in DOMAIN d : d[t] # << >>

\* A status that lets warnings count as failures.
StatusStrict(src, snk) ==
    IF HasEntry(src.failures) \/ HasEntry(snk.failures)
       \/ HasEntry(src.warnings) \/ HasEntry(snk.warnings)
    THEN "Failure" ELSE "Success"

\* Pipeline.status(): Failure, else Warning, else Success.
status(src, snk) ==
    IF HasEntry(src.failures) \/ HasEntry(snk.failures) THEN "Failure"
    ELSE IF HasEntry(src.warnings) \/ HasEntry(snk.warnings) THEN "Warning"
    ELSE "Success"

\* Pipeline.create: a new Source (KafkaSource.create) and a new Sink.  What the
\* Source of a finished run produced is kept for comparison.
PipelineCreate ==
    /\ pipeline.pc \in {"none", "done"}
    /\ Len(previous) + (IF pipeline.pc = "done" THEN 1 ELSE 0) < MaxRuns
    /\ previous' = IF pipeline.pc = "done" THEN Append(previous, RunOutcome)
                                            ELSE previous
    /\ report' = KafkaSourceReport(report)
    /\ calls' = [list_topics |-> 0, get_latest_version |-> 0, close |-> 0]
    /\ gens' = EmptyBag
    /\ close_raised' = FALSE
    /\ sink' = NewSink
    /\ pipeline' = [NoPipeline EXCEPT !.pc = "created"]
    /\ UNCHANGED <<platform_topics, registry>>

\* run(): the for loop obtains the generator.
RunBegin ==
    /\ pipeline.pc = "created"
    /\ get_workunits
    /\ pipeline' = [pipeline EXCEPT !.pc = "pulling"]
    /\ UNCHANGED <<sink, previous>>

\* run(): the for loop pulls the next work unit.
RunPull ==
    /\ pipeline.pc = "pulling"
    /\ \E g \in BagToSet(gens) : StartGenerator(g) \/ ResumeGenerator(g)
    /\ LET h == CHOOSE h \in BagToSet(gens') : TRUE IN
       pipeline' =
           IF h.pc = "suspended"
           THEN [pipeline EXCEPT !.pc = "forwarding",
                                 !.pending = <<h.emitted[Len(h.emitted)]>>]
           ELSE [pipeline EXCEPT !.pc = "closing",
                                 !.run_error = h.error]
    /\ UNCHANGED <<sink, previous>>

\* run(): the unit pulled is written to the Sink before the next pull.
RunForward ==
    /\ pipeline.pc = "forwarding"
    /\ \E o \in SinkOutcomes : sink' = write(sink, pipeline.pending[1], o)
    /\ pipeline' = [pipeline EXCEPT !.pc = "pulling", !.pending = << >>]
    /\ UNCHANGED <<platform_topics, registry, report, calls, gens, close_raised,
                   previous>>

\* run(): after exhaustion, or when the pull raised, Source and Sink are closed.
RunClose ==
    /\ pipeline.pc = "closing"
    /\ source_close
    /\ sink' = [sink EXCEPT !.closed = TRUE]
    /\ pipeline' = [pipeline EXCEPT !.pc = "done"]
    /\ UNCHANGED previous

\* raise_from_status(): PipelineFailed when the status is Failure.
RaiseFromStatus ==
    /\ pipeline.pc = "done"
    /\ pipeline.raise_result = "not called"
    /\ pipeline' = [pipeline EXCEPT !.raise_result =
                        IF status(get_report, sink) = "Failure"
                        THEN "PipelineFailed" ELSE "returned"]
    /\ UNCHANGED <<platform_topics, registry, report, calls, gens, close_raised,
                   sink, previous>>

PipelineNext ==
    \/ PipelineCreate
    \/ RunBegin
    \/ RunPull
    \/ RunForward
    \/ RunClose
    \/ RaiseFromStatus

PipelineSpec == Init /\ [][PipelineNext]_vars

(* ----------------------------------------------------- reading the state *)
Gens == BagToSet(gens)

\* The number of generator objects that satisfy P.
HowMany(P(_)) ==
    LET S == {g \in Gens : P(g)} IN
    IF S = {} THEN 0 ELSE BagCardinality([g \in S |-> gens[g]])

\* The topic a work unit was made for, read from its record's urn.
TopicOf(wu) == wu.mce.urn[2]

\* The positions in g's output of the work units for topic t.
UnitsFor(g, t) == {n \in DOMAIN g.emitted : TopicOf(g.emitted[n]) = t}

\* The loop of g has taken topic position k and the schema registry gave resp.
Took(g, k, resp) ==
    /\ k \in 1..g.i
    /\ topic_allowed(g.topics[k])
    /\ g.topics[k] \in DOMAIN registry
    /\ registry[g.topics[k]] = resp

HasAspect(mce, name) == \E a \in DOMAIN mce.aspects : mce.aspects[a].aspect = name

(* ----------------------------------------------------------------- claims *)

\* C1: every allowed topic whose schema fetch raised and which a generator has
\* taken was yielded by that generator exactly once, as a work unit whose
\* record carries the status aspect only; the topic has one "failed to get
\* schema" warning per generator that took it, and no failure entry.
C1_FetchErrorIsWarning ==
    \A g \in Gens : \A k \in 1..g.i :
        Took(g, k, FetchRaises) =>
            LET t == g.topics[k]
                taken(h) == \E j \in 1..h.i : h.topics[j] = t
            IN /\ Cardinality(UnitsFor(g, t)) = 1
               /\ \A n \in UnitsFor(g, t) : g.emitted[n].mce.aspects = <<Status>>
               /\ t \in DOMAIN report.warnings
               /\ Len(report.warnings[t]) = HowMany(taken)
               /\ \A w \in DOMAIN report.warnings[t] :
                      report.warnings[t][w] = "failed to get schema"
               /\ t \notin DOMAIN report.failures

C1_Witness ==
    \E g \in Gens : \E k \in 1..g.i :
        /\ Took(g, k, FetchRaises)
        /\ g.pc = "suspended"
        /\ k = g.i
        /\ Len(report.warnings[g.topics[k]]) = 1

\* C2 as claimed: every allowed topic whose registered schema is not AVRO and
\* which a generator has taken has a warning, and the record yielded for it
\* has no SchemaMetadata aspect.
C2_Claimed ==
    \A g \in Gens : \A k \in 1..g.i :
        Took(g, k, JsonSchema) =>
            /\ g.topics[k] \in DOMAIN report.warnings
            /\ \A n \in UnitsFor(g, g.topics[k]) :
                   ~HasAspect(g.emitted[n].mce, "SchemaMetadata")

\* C2 as amended: every allowed topic whose registered schema is not AVRO and
\* which a generator has taken has a warning, and the record yielded for it
\* carries the status aspect followed by a SchemaMetadata aspect that holds the
\* raw schema string and an empty field list.
C2_UnsupportedKeepsRawSchema ==
    \A g \in Gens : \A k \in 1..g.i :
        Took(g, k, JsonSchema) =>
            LET t == g.topics[k] IN
            /\ t \in DOMAIN report.warnings
            /\ \A w \in DOMAIN report.warnings[t] :
                   report.warnings[t][w] = "unable to parse kafka schema type"
            /\ Cardinality(UnitsFor(g, t)) = 1
            /\ \A n \in UnitsFor(g, t) :
                   LET a == g.emitted[n].mce.aspects IN
                   /\ Len(a) = 2
                   /\ a[1] = Status
                   /\ a[2].aspect = "SchemaMetadata"
                   /\ a[2].platformSchema = JsonSchema.schema_str
                   /\ a[2].fields = << >>

C2_Witness ==
    \E g \in Gens : \E k \in 1..g.i :
        /\ Took(g, k, JsonSchema)
        /\ UnitsFor(g, g.topics[k]) # {}

\* C3: for every allowed topic whose record construction raised (here: the
\* conversion of its AVRO schema to fields), a failure entry is recorded in
\* failures[topic] and no work unit is emitted for the topic.
C3_ConstructionErrorIsFailure ==
    \A g \in Gens : \A k \in 1..g.i :
        Took(g, k, AvroBad) =>
            /\ g.topics[k] \in DOMAIN report.failures
            /\ UnitsFor(g, g.topics[k]) = {}

\* C4: no per-topic extraction error leaves get_workunits as an exception, and
\* a generator that has stopped has scanned every topic of its enumeration.
C4_FailSoft ==
    \A g \in Gens :
        /\ g.error # "SchemaParseError"
        /\ (g.pc \in {"exhausted", "raised"} /\ g.topics # << >>
               => g.i = Len(g.topics))

\* C5: while one get_workunits sequence is pulled, every topic scanned so far
\* is either in filtered with no work unit, or has exactly one work unit and is
\* not in filtered; so topics_scanned = len(filtered) + work units emitted.
C5_ScannedIsFilteredOrEmitted ==
    BagCardinality(gens) = 1 =>
        \A g \in Gens :
            /\ report.topics_scanned = Len(report.filtered) + Len(g.emitted)
            /\ \A k \in 1..g.i :
                   LET t == g.topics[k]
                       dropped == \E f \in DOMAIN report.filtered :
                                      report.filtered[f] = t
                   IN IF topic_allowed(t)
                      THEN Cardinality(UnitsFor(g, t)) = 1 /\ ~dropped
                      ELSE UnitsFor(g, t) = {} /\ dropped

\* A topic name that does not begin with "_", and one that does.
NotReserved(t) == t # << >> => t[1] # "_"
Reserved(t) == ~NotReserved(t)

\* The number of topics g has taken and finished with (the last one taken is
\* not finished when its extraction raised).
Finished(g) == IF g.error = "SchemaParseError" THEN g.i - 1 ELSE g.i

EmittedTopics(g) == [n \in DOMAIN g.emitted |-> TopicOf(g.emitted[n])]

C7_ClosedIsTerminal ==
    /\ \A g \in Gens :
           g.after_close =>
               /\ g.pc \in {"created", "raised"}
               /\ (g.pc = "raised" => g.error = "SourceClosed")
               /\ g.emitted = << >>
               /\ g.i = 0
    /\ LET startedBefore(g) == ~g.after_close /\ g.pc # "created"
       IN calls.list_topics = HowMany(startedBefore)

\* C8: however often close() is called, the consumer is closed once and no
\* call of close() raises.
C8_CloseIdempotent ==
    /\ calls.close <= 1
    /\ ~close_raised

\* C9: the ids of the work units one generator has yielded are pairwise
\* distinct.
C9_UniqueIds ==
    \A g \in Gens : \A m, n \in DOMAIN g.emitted :
        m # n => g.emitted[m].id # g.emitted[n].id

C9_Witness ==
    \E g \in Gens : Len(g.emitted) >= 2

\* C10: the platform is enumerated at most once per Source, however often
\* get_workunits() is called: list_topics is called at most once, no topic is
\* counted as scanned or filtered twice, and at most one work unit per topic
\* is produced.
C10_SinglePass ==
    /\ calls.list_topics <= 1
    /\ report.topics_scanned <= Len(platform_topics)
    /\ Len(report.filtered) <= Len(platform_topics)
    /\ report.workunits_produced <= Len(platform_topics)

\* C12: while one generator is pulled, the report returned by get_report counts
\* exactly the topics the loop has reached (up to and including the topic of
\* the work unit last yielded): topics_scanned is their number, filtered the
\* rejected ones among them, and one schema fetch was issued per accepted one;
\* a topic not yet reached is not in filtered, has no warning and no failure,
\* and no schema fetch has been issued for it.
C12_ReportAsOfLastPull ==
    BagCardinality(gens) = 1 =>
        \A g \in Gens :
            LET reached == {g.topics[k] : k \in 1..g.i}
                inFiltered(t) == \E f \in DOMAIN get_report.filtered :
                                     get_report.filtered[f] = t
            IN /\ get_report.topics_scanned = g.i
               /\ Len(get_report.filtered) =
                      Cardinality({k \in 1..g.i : ~topic_allowed(g.topics[k])})
               /\ calls.get_latest_version =
                      Cardinality({k \in 1..g.i : topic_allowed(g.topics[k])})
               /\ (g.pc = "suspended" =>
                      TopicOf(g.emitted[Len(g.emitted)]) = g.topics[g.i])
               /\ \A k \in 1..Len(platform_topics) :
                      platform_topics[k] \notin reached =>
                          /\ ~inFiltered(platform_topics[k])
                          /\ platform_topics[k] \notin DOMAIN get_report.warnings
                          /\ platform_topics[k] \notin DOMAIN get_report.failures
                          /\ platform_topics[k] \notin DOMAIN registry

C12_Witness ==
    /\ BagCardinality(gens) = 1
    /\ \E g \in Gens :
           /\ g.pc = "suspended"
           /\ get_report.topics_scanned = 2
           /\ g.i < Len(g.topics)
           /\ topic_allowed(g.topics[g.i + 1])

\* The number of aspects of the record mce that are of the kind name.
AspectCount(mce, name) ==
    Cardinality({a \in DOMAIN mce.aspects : mce.aspects[a].aspect = name})

IsPrefix(s, t) == Len(s) <= Len(t) /\ SubSeq(t, 1, Len(s)) = s

\* The state part of C16: every yielded record has exactly one Status aspect,
\* in first place, and at most one SchemaMetadata aspect, and nothing else.
WellFormedRecords ==
    \A g \in Gens : \A n \in DOMAIN g.emitted :
        LET mce == g.emitted[n].mce IN
        /\ mce.aspects # << >>
        /\ mce.aspects[1] = Status
        /\ AspectCount(mce, "Status") = 1
        /\ AspectCount(mce, "SchemaMetadata") <= 1
        /\ Len(mce.aspects) = 1 + AspectCount(mce, "SchemaMetadata")

\* The step part of C16: whatever a generator has yielded, with its ids and
\* its records' aspects, is still the beginning of what a generator has
\* yielded after the step.
YieldedUnitsKept ==
    \A g \in Gens : \E h \in BagToSet(gens') : IsPrefix(g.emitted, h.emitted)

\* C16: every record emitted in a work unit has exactly one status aspect,
\* placed first, and at most one schema aspect; and once a work unit has been
\* yielded, its id and its record's aspects never change.
C16_RecordsWellFormedAndStable ==
    []WellFormedRecords /\ [][YieldedUnitsKept]_vars

C16_Witness ==
    \E g \in Gens :
        /\ Len(g.emitted) = 2
        /\ Len(g.emitted[1].mce.aspects) = 2
        /\ g.pc = "exhausted"

\* C17: a topic gets at most one warning per enumeration that took it (so at
\* most one while a single generator is pulled); the warning is "failed to get
\* schema" exactly when its fetch raised and "unable to parse kafka schema
\* type" exactly when its schema is not AVRO, never both; and a topic whose
\* fetch gave an AVRO schema has no warning.
C17_OneWarningPerTopic ==
    /\ \A t \in DOMAIN report.warnings :
           LET taken(h) == \E j \in 1..h.i : h.topics[j] = t
               w == report.warnings[t]
           IN /\ Len(w) <= HowMany(taken)
              /\ (BagCardinality(gens) = 1 => Len(w) <= 1)
              /\ t \in DOMAIN registry
              /\ registry[t] \in {FetchRaises, JsonSchema}
              /\ \A n \in DOMAIN w :
                     w[n] = IF registry[t] = FetchRaises
                            THEN "failed to get schema"
                            ELSE "unable to parse kafka schema type"
    /\ \A t \in DOMAIN registry :
           registry[t].schema_type = "AVRO" => t \notin DOMAIN report.warnings

C17_Witness ==
    /\ BagCardinality(gens) = 1
    /\ \E t, u \in DOMAIN report.warnings :
           /\ registry[t] = FetchRaises
           /\ registry[u] = JsonSchema
           /\ Len(report.warnings[t]) = 1
           /\ Len(report.warnings[u]) = 1

\* The enumeration a generator works on at its next pull.
TopicsOf(g) == IF g.pc = "created" THEN platform_topics ELSE g.topics

\* C18: processing the topics the filter rejects, from where a generator
\* stands, adds one to topics_scanned and appends the topic to filtered for
\* each of them and leaves warnings, failures and the count of produced work
\* units as they were; no schema fetch was ever issued for a rejected topic,
\* and every key of warnings and failures is a topic that passed the filter.
C18_DroppedTopicFrame ==
    /\ \A g \in Gens :
           g.pc \in {"created", "suspended"} =>
               LET s == SkipDropped(report, TopicsOf(g), g.i) IN
               /\ \A k \in (g.i + 1)..s.i : ~topic_allowed(TopicsOf(g)[k])
               /\ s.report.topics_scanned = report.topics_scanned + (s.i - g.i)
               /\ s.report.filtered =
                      report.filtered \o SubSeq(TopicsOf(g), g.i + 1, s.i)
               /\ s.report.warnings = report.warnings
               /\ s.report.failures = report.failures
               /\ s.report.workunits_produced = report.workunits_produced
    /\ \A f \in DOMAIN report.filtered :
           /\ ~topic_allowed(report.filtered[f])
           /\ report.filtered[f] \notin DOMAIN registry
    /\ \A t \in DOMAIN report.warnings \cup DOMAIN report.failures : topic_allowed(t)

C18_Witness ==
    /\ report.filtered # << >>
    /\ DOMAIN report.warnings # {}
    /\ \E g \in Gens :
           /\ g.pc = "suspended"
           /\ SkipDropped(report, g.topics, g.i).i > g.i

\* C11: a run from a freshly created Source, once it has ended, has yielded
\* the same set of work unit ids and left a report with the same
\* topics_scanned, the same filtered list and the same keys and entry counts
\* of warnings and failures as every earlier run against the same platform
\* responses.
C11_RunsAgree ==
    pipeline.pc = "done" =>
        \A n \in DOMAIN previous : previous[n] = RunOutcome

C11_Witness ==
    /\ pipeline.pc = "done"
    /\ previous # << >>
    /\ previous[1].ended = {"exhausted"}
    /\ previous[1].ids # {}
    /\ previous[1].filtered # << >>
    /\ DOMAIN previous[1].warnings # {}

\* C13: when the platform enumerates no topic, nothing is yielded or written
\* to the Sink, the report stays at topics_scanned = 0 with empty filtered,
\* warnings and failures, the sequence ends by exhaustion, and the status of
\* the finished run is Success.
C13_EmptyPlatform ==
    platform_topics = << >> =>
        /\ sink.received = << >>
        /\ \A g \in Gens : g.emitted = << >> /\ g.pc \in {"created", "exhausted"}
        /\ get_report.topics_scanned = 0
        /\ get_report.filtered = << >>
        /\ DOMAIN get_report.warnings = {}
        /\ DOMAIN get_report.failures = {}
        /\ (pipeline.pc = "done" =>
               /\ \A g \in Gens : g.pc = "exhausted"
               /\ pipeline.run_error = "none"
               /\ status(get_report, sink) = "Success"
               /\ pipeline.raise_result # "PipelineFailed")

C13_Witness ==
    /\ platform_topics = << >>
    /\ pipeline.pc = "done"
    /\ pipeline.raise_result = "returned"
    /\ calls.list_topics = 1

\* C14: after a run, the status is Failure when the Source's or the Sink's
\* report holds a failure entry, Warning when neither does and one of them
\* holds a warning entry, Success otherwise; raise_from_status fails with
\* PipelineFailed exactly when the status is Failure, so it returns when the
\* reports hold warnings only.
C14_StatusAndRaise ==
    pipeline.pc = "done" =>
        LET failed == \/ \E t \in DOMAIN get_report.failures :
                             Len(get_report.failures[t]) >= 1
                      \/ \E u \in DOMAIN sink.failures : Len(sink.failures[u]) >= 1
            warned == \/ \E t \in DOMAIN get_report.warnings :
                             Len(get_report.warnings[t]) >= 1
                      \/ \E u \in DOMAIN sink.warnings : Len(sink.warnings[u]) >= 1
            st == status(get_report, sink)
        IN /\ (st = "Failure") = failed
           /\ (st = "Warning") = (~failed /\ warned)
           /\ (st = "Success") = (~failed /\ ~warned)
           /\ (pipeline.raise_result = "PipelineFailed" => failed)
           /\ (pipeline.raise_result = "returned" => ~failed)

C14_Witness ==
    /\ pipeline.pc = "done"
    /\ pipeline.raise_result = "returned"
    /\ DOMAIN get_report.warnings # {}
    /\ DOMAIN sink.warnings # {}
    /\ status(get_report, sink) = "Warning"

\* C15: during run() what the Sink has received, followed by the one unit
\* pulled and not yet written if there is one, is exactly what the Source has
\* yielded, in the same order, which is the enumeration order of the accepted
\* topics; at most one unit is pulled and not yet written.
C15_InOrderDelivery ==
    /\ Len(pipeline.pending) <= 1
    /\ (pipeline.pc = "forwarding") = (pipeline.pending # << >>)
    /\ (Gens = {} => sink.received = << >>)
    /\ \A g \in Gens :
           /\ sink.received \o pipeline.pending = g.emitted
           /\ IsPrefix([n \in DOMAIN sink.received |-> TopicOf(sink.received[n])],
                       SelectSeq(platform_topics, topic_allowed))

C15_Witness ==
    /\ pipeline.pc = "forwarding"
    /\ Len(sink.received) = 1
    /\ TopicOf(pipeline.pending[1]) # TopicOf(sink.received[1])

====
